---- MODULE Spec2Model ----
(***************************************************************************)
(* OracleDatabase.execute (src/nodes/Oracle/OracleDatabase.node.ts).       *)
(*                                                                         *)
(* A JavaScript string is a sequence of one-character strings.  A          *)
(* JavaScript value is a record with a kind (string, number, NaN,          *)
(* undefined).  One invocation of execute() is a state machine whose       *)
(* steps are the synchronous stretches between its awaits, with the        *)
(* reduce callback taken one parameter at a time.                          *)
(***************************************************************************)
EXTENDS Integers, Sequences, FiniteSets, TLC

VARIABLES
    nodeParameters,   \* what this.getNodeParameter returns for this node
    pc,               \* position of the invocation
    connection,       \* TRUE once db.getConnection() resolved
    query,            \* let query
    parameterList,    \* const parameterList
    includeMetadata,  \* const includeMetadata
    rowLimit,         \* const rowLimit
    idx,              \* index of the next element reduce hands to the callback
    bindParameters,   \* acc of the reduce, then const bindParameters
    uuidCount,        \* number of crypto.randomUUID() calls made so far
    calls,            \* calls made on the connection and on console, in order
    callArgs,         \* arguments of connection.execute
    driverOutcome,    \* how connection.execute settled
    closeOutcome,     \* how connection.close settled
    result,           \* const result
    returnItems,      \* let returnItems
    caught,           \* the error bound by catch (error)
    pending,          \* the completion the finally block resumes with
    outcome           \* how the promise returned by execute() settled

vars == <<nodeParameters, pc, connection, query, parameterList, includeMetadata,
          rowLimit, idx, bindParameters, uuidCount, calls, callArgs,
          driverOutcome, closeOutcome, result, returnItems, caught, pending,
          outcome>>

----------------------------------------------------------------------------
(* Bounds of the model *)

MaxParams == 2
MaxToks == 2
MaxRows == 2

----------------------------------------------------------------------------
(* JavaScript values and strings *)

JSStr(s) == [kind |-> "string", str |-> s, num |-> 0]
JSNum(n) == [kind |-> "number", str |-> <<>>, num |-> n]
JSNaN == [kind |-> "NaN", str |-> <<>>, num |-> 0]
JSUndefined == [kind |-> "undefined", str |-> <<>>, num |-> 0]

DigitChars == <<"0", "1", "2", "3", "4", "5", "6", "7", "8", "9">>
HexChars == DigitChars \o <<"a", "b", "c", "d", "e", "f">>
WhiteSpace == {" "}

Range(s) == {s[i] : i \in 1..Len(s)}

DigitValue(c) == (CHOOSE i \in 1..Len(DigitChars) : DigitChars[i] = c) - 1

RECURSIVE ToDecimal(_)
ToDecimal(n) ==
    IF n < 10 THEN <<DigitChars[n + 1]>>
    ELSE ToDecimal(n \div 10) \o <<DigitChars[(n % 10) + 1]>>

RECURSIVE DecimalValue(_)
DecimalValue(s) ==
    IF s = <<>> THEN 0
    ELSE 10 * DecimalValue(SubSeq(s, 1, Len(s) - 1)) + DigitValue(s[Len(s)])

RECURSIVE Trim(_)
Trim(s) ==
    IF s = <<>> THEN s
    ELSE IF s[1] \in WhiteSpace THEN Trim(Tail(s))
    ELSE IF s[Len(s)] \in WhiteSpace THEN Trim(SubSeq(s, 1, Len(s) - 1))
    ELSE s

\* Number(v)
Number(v) ==
    CASE v.kind = "number" -> v
      [] v.kind = "NaN" -> v
      [] v.kind = "undefined" -> JSNaN
      [] v.kind = "string" ->
            LET t == Trim(v.str) IN
            IF t = <<>> THEN JSNum(0)
            ELSE IF Range(t) \subseteq Range(DigitChars) THEN JSNum(DecimalValue(t))
            ELSE JSNaN

\* String(v)
String(v) ==
    CASE v.kind = "string" -> v
      [] v.kind = "number" -> JSStr(ToDecimal(v.num))
      [] v.kind = "NaN" -> JSStr(<<"N", "a", "N">>)
      [] v.kind = "undefined" ->
            JSStr(<<"u", "n", "d", "e", "f", "i", "n", "e", "d">>)

StartsWithAt(s, pat, i) ==
    /\ i + Len(pat) - 1 <= Len(s)
    /\ SubSeq(s, i, i + Len(pat) - 1) = pat

\* s.replaceAll(pat, rep) for a non-empty string pattern: left to right,
\* non-overlapping, the replacement text is not scanned again.
RECURSIVE ReplaceFrom(_, _, _, _)
ReplaceFrom(s, pat, rep, i) ==
    IF i > Len(s) THEN <<>>
    ELSE IF StartsWithAt(s, pat, i)
         THEN rep \o ReplaceFrom(s, pat, rep, i + Len(pat))
         ELSE <<s[i]>> \o ReplaceFrom(s, pat, rep, i + 1)

ReplaceAll(s, pat, rep) == ReplaceFrom(s, pat, rep, 1)

\* s.split(sep) for a one-character separator: "" splits into [""].
RECURSIVE SplitFrom(_, _, _, _)
SplitFrom(s, sep, i, cur) ==
    IF i > Len(s) THEN <<cur>>
    ELSE IF s[i] = sep THEN <<cur>> \o SplitFrom(s, sep, i + 1, <<>>)
    ELSE SplitFrom(s, sep, i + 1, Append(cur, s[i]))

Split(s, sep) == SplitFrom(s, sep, 1, <<>>)

\* variant: the final comma is kept
SliceKeepAll(s) == s

\* s.slice(0, -1)
SliceDropLast(s) == SubSeq(s, 1, Len(s) - 1)

----------------------------------------------------------------------------
(* The bind compiler: the callback of parameterList.reduce *)

NoError == [name |-> "none", cause |-> "none"]
Error(name) == [name |-> name, cause |-> "none"]
NodeOperationError(error) == [name |-> "NodeOperationError", cause |-> error.name]

\* const dataType = param.datatype === "number" ? oracledb.NUMBER : oracledb.STRING
DataType(param) == IF param.datatype = "number" THEN "NUMBER" ELSE "STRING"

\* variant: the declared type is ignored and every value is bound as text
CoerceAlwaysString(param, v) == String(v)

\* param.datatype === "number" ? Number(v) : String(v)
Coerce(param, v) == IF param.datatype = "number" THEN Number(v) ELSE String(v)

BindEntry(param, v) == [type |-> DataType(param), val |-> Coerce(param, v)]

\* variant: a parameter without a name is skipped
PutIgnoresEmptyKey(acc, key, entry) ==
    IF key = <<>> THEN acc
    ELSE [k \in (DOMAIN acc) \cup {key} |-> IF k = key THEN entry ELSE acc[k]]

\* acc[key] = entry
Put(acc, key, entry) ==
    [k \in (DOMAIN acc) \cup {key} |-> IF k = key THEN entry ELSE acc[k]]

\* crypto.randomUUID(): the n-th identifier drawn in this invocation, with a
\* random leading hex digit h.  Identifiers are unique and of one length.
RandomUUID(h, n) ==
    <<h, "-", HexChars[((n \div 16) % 16) + 1], HexChars[(n % 16) + 1]>>

\* crypto.randomUUID().replaceAll("-", "_")
UniqueSuffix(h, n) == ReplaceAll(RandomUUID(h, n), <<"-">>, <<"_">>)

\* param.value.toString() throws a TypeError on undefined
ToStringThrows(v) == v.kind = "undefined"

\* param.value.toString().split(",")
ValuesArray(param) == Split(String(param.value).str, ",")

\* the for loop over valuesArray, from index i on
RECURSIVE ExpandLoop(_, _, _, _, _, _)
ExpandLoop(param, valuesArray, suffixes, i, acc, inClause) ==
    IF i > Len(valuesArray) THEN [acc |-> acc, inClause |-> inClause]
    ELSE LET newParamName == param.name \o suffixes[i] IN
         ExpandLoop(param, valuesArray, suffixes, i + 1,
                    Put(acc, newParamName, BindEntry(param, JSStr(valuesArray[i]))),
                    inClause \o <<":">> \o newParamName \o <<",">>)

\* query.replaceAll(`:${param.name}`, inClause)
RewriteQuery(q, name, inClause) == ReplaceAll(q, <<":">> \o name, inClause)

\* One call of the reduce callback on (acc, param); q is the query it closes
\* over and suffixes are the identifiers randomUUID hands out during the call.
BindCallback(acc, q, param, suffixes) ==
    IF ~param.parseInStatement
    THEN [threw |-> FALSE, acc |-> Put(acc, param.name, BindEntry(param, param.value)),
          query |-> q]
    ELSE IF ToStringThrows(param.value)
    THEN [threw |-> TRUE, acc |-> acc, query |-> q]
    ELSE LET valuesArray == ValuesArray(param)
             loop == ExpandLoop(param, valuesArray, suffixes, 1, acc, <<"(">>)
             inClause == SliceDropLast(loop.inClause) \o <<")">>
         IN [threw |-> FALSE, acc |-> loop.acc,
             query |-> RewriteQuery(q, param.name, inClause)]

\* number of randomUUID() calls the callback makes on param
SuffixesNeeded(param) ==
    IF param.parseInStatement /\ ~ToStringThrows(param.value)
    THEN Len(ValuesArray(param)) ELSE 0

----------------------------------------------------------------------------
(* Limit clause, result projection, catch and finally *)

FetchFirst == <<" ", "F", "E", "T", "C", "H", " ", "F", "I", "R", "S", "T", " ">>
RowsOnly == <<" ", "R", "O", "W", "S", " ", "O", "N", "L", "Y">>

\* variant: the clause is appended for every rowLimit
ApplyLimitAlways(q, limit) == q \o FetchFirst \o ToDecimal(limit) \o RowsOnly

\* if (rowLimit > 0) query += ` FETCH FIRST ${rowLimit} ROWS ONLY`
ApplyLimit(q, limit) ==
    IF limit > 0 THEN q \o FetchFirst \o ToDecimal(limit) \o RowsOnly ELSE q

\* the options object handed to connection.execute
ExecuteOptions(meta) ==
    [outFormat |-> "OUT_FORMAT_OBJECT", autoCommit |-> TRUE, extendedMetaData |-> meta]

\* result.rows || []
RowsOrEmpty(res) == IF res.hasRows THEN res.rows ELSE <<>>

\* variant: one item per row whatever includeMetadata says
ProjectRowsOnly(res, meta) ==
    [i \in 1..Len(RowsOrEmpty(res)) |-> [json |-> RowsOrEmpty(res)[i]]]

\* the if (includeMetadata) ... else ... after the driver call
Project(res, meta) ==
    IF meta THEN <<[json |-> res]>>
    ELSE [i \in 1..Len(RowsOrEmpty(res)) |-> [json |-> RowsOrEmpty(res)[i]]]

NormalCompletion == [type |-> "normal", error |-> NoError]

\* variant: the catch clause swallows the error
CatchClauseSwallows(error) == NormalCompletion

\* catch (error) { throw new NodeOperationError(this.getNode(), error) }
CatchClause(error) == [type |-> "throw", error |-> NodeOperationError(error)]

\* variant: the guard of the close is inverted
ShouldCloseNegated(conn) == ~conn

\* if (connection)
ShouldClose(conn) == conn

\* variant: the close error leaves the finally block
CloseFailedPropagates(completion, closeErr) == [type |-> "throw", error |-> closeErr]

\* catch (closeErr) { console.error(...) }: the completion the finally block
\* ends with when connection.close() rejected with closeErr
CloseFailed(completion, closeErr) == completion

\* what the promise of execute() settles to once the finally block is over
Settle(completion, items) ==
    IF completion.type = "throw"
    THEN [kind |-> "rejected", error |-> completion.error, value |-> <<>>]
    ELSE [kind |-> "resolved", error |-> NoError, value |-> <<items>>]

NotSettled == [kind |-> "pending", error |-> NoError, value |-> <<>>]

----------------------------------------------------------------------------
(* Inputs *)

Param(name, value, datatype, parseInStatement) ==
    [name |-> name, value |-> value, datatype |-> datatype,
     parseInStatement |-> parseInStatement]

\* sequences over S of length 0..n
SeqsUpTo(S, n) == UNION {[1..m -> S] : m \in 0..n}

RECURSIVE Join(_, _)
Join(toks, sep) ==
    IF Len(toks) = 0 THEN <<>>
    ELSE IF Len(toks) = 1 THEN toks[1]
    ELSE toks[1] \o sep \o Join(Tail(toks), sep)

\* the queries: 1..MaxToks tokens separated by one space
Queries(tokens) == {Join(ts, <<" ">>) : ts \in SeqsUpTo(tokens, MaxToks) \ {<<>>}}

\* the options of the rowLimit property
RowLimits == {0, 100, 1000, 10000}

NodeParameters(queries, params, metas, limits) ==
    [query : queries, params : SeqsUpTo(params, MaxParams),
     includeMetadata : metas, rowLimit : limits]

\* Inputs of the whole invocation
ExecTokens == {<<":", "a">>, <<"x">>}
ExecParams ==
    { Param(<<"a">>, JSStr(<<"7">>), "number", FALSE),
      Param(<<"a">>, JSStr(<<"2", ",", "1">>), "number", TRUE),
      Param(<<"a">>, JSUndefined, "string", TRUE),
      Param(<<>>, JSStr(<<"7">>), "string", FALSE),
      Param(<<"c">>, JSStr(<<"x">>), "number", FALSE) }
ExecInputs == NodeParameters(Queries(ExecTokens), ExecParams, BOOLEAN, RowLimits)

\* the rows a driver result may hold
Rows == {[ID |-> 1], [ID |-> 2]}
DriverResults(options) ==
    {[hasRows |-> TRUE, rows |-> rs,
      metaData |-> IF options.extendedMetaData THEN "extended" ELSE "basic"] :
        rs \in SeqsUpTo(Rows, MaxRows)}
    \cup {[hasRows |-> FALSE, rows |-> <<>>, metaData |-> "none"]}

\* leading hex digits randomUUID may draw
LeadHex == {"b", "7"}

----------------------------------------------------------------------------
(* The invocation *)

InitWith(inputs) ==
    /\ nodeParameters \in inputs
    /\ pc = "connecting"
    /\ connection = FALSE
    /\ query = <<>>
    /\ parameterList = <<>>
    /\ includeMetadata = FALSE
    /\ rowLimit = 0
    /\ idx = 1
    /\ bindParameters = <<>>
    /\ uuidCount = 0
    /\ calls = <<>>
    /\ callArgs = [sql |-> <<>>, binds |-> <<>>, options |-> ExecuteOptions(FALSE)]
    /\ driverOutcome = "none"
    /\ closeOutcome = "none"
    /\ result = [hasRows |-> FALSE, rows |-> <<>>, metaData |-> "none"]
    /\ returnItems = <<>>
    /\ caught = NoError
    /\ pending = NormalCompletion
    /\ outcome = NotSettled

Init == InitWith(ExecInputs)

\* The finally block up to its await: resumes with `completion` afterwards.
EnterFinally(completion) ==
    /\ pending' = completion
    /\ IF ShouldClose(connection)
       THEN /\ calls' = Append(calls, "close")
            /\ pc' = "closing"
            /\ outcome' = outcome
       ELSE /\ calls' = calls
            /\ pc' = "done"
            /\ outcome' = Settle(completion, returnItems')

\* const connection = await db.getConnection() resolves
GetConnectionResolves ==
    /\ pc = "connecting"
    /\ connection' = TRUE
    /\ pc' = "try"
    /\ UNCHANGED <<closeOutcome, nodeParameters, query, parameterList, includeMetadata, rowLimit,
                   idx, bindParameters, uuidCount, calls, callArgs, driverOutcome,
                   result, returnItems, caught, pending, outcome>>

\* await db.getConnection() rejects: execute() rejects with that error
GetConnectionRejects ==
    /\ pc = "connecting"
    /\ pc' = "done"
    /\ outcome' = [kind |-> "rejected", error |-> Error("ConnectError"), value |-> <<>>]
    /\ UNCHANGED <<closeOutcome, nodeParameters, connection, query, parameterList, includeMetadata,
                   rowLimit, idx, bindParameters, uuidCount, calls, callArgs,
                   driverOutcome, result, returnItems, caught, pending>>

\* the getNodeParameter calls at the head of the try block
ReadParameters ==
    /\ pc = "try"
    /\ query' = nodeParameters.query
    /\ parameterList' = nodeParameters.params
    /\ includeMetadata' = nodeParameters.includeMetadata
    /\ rowLimit' = nodeParameters.rowLimit
    /\ idx' = 1
    /\ bindParameters' = <<>>
    /\ pc' = "reduce"
    /\ UNCHANGED <<closeOutcome, nodeParameters, connection, uuidCount, calls, callArgs,
                   driverOutcome, result, returnItems, caught, pending, outcome>>

\* one call of the reduce callback
BindParameter ==
    /\ pc = "reduce"
    /\ idx <= Len(parameterList)
    /\ LET param == parameterList[idx]
           k == SuffixesNeeded(param)
       IN \E hs \in [1..k -> LeadHex] :
            LET suffixes == [i \in 1..k |-> UniqueSuffix(hs[i], uuidCount + i - 1)]
                r == BindCallback(bindParameters, query, param, suffixes)
            IN /\ uuidCount' = uuidCount + k
               /\ IF r.threw
                  THEN /\ caught' = Error("TypeError")
                       /\ EnterFinally(CatchClause(Error("TypeError")))
                       /\ UNCHANGED <<idx, bindParameters, query>>
                  ELSE /\ bindParameters' = r.acc
                       /\ query' = r.query
                       /\ idx' = idx + 1
                       /\ UNCHANGED <<pc, calls, caught, pending, outcome>>
    /\ UNCHANGED <<closeOutcome, nodeParameters, connection, parameterList, includeMetadata,
                   rowLimit, callArgs, driverOutcome, result, returnItems>>

\* the limit clause and the call of connection.execute, up to its await
CallExecute ==
    /\ pc = "reduce"
    /\ idx > Len(parameterList)
    /\ query' = ApplyLimit(query, rowLimit)
    /\ callArgs' = [sql |-> query', binds |-> bindParameters,
                    options |-> ExecuteOptions(includeMetadata)]
    /\ calls' = Append(calls, "execute")
    /\ pc' = "executing"
    /\ UNCHANGED <<closeOutcome, nodeParameters, connection, parameterList, includeMetadata,
                   rowLimit, idx, bindParameters, uuidCount, driverOutcome, result,
                   returnItems, caught, pending, outcome>>

\* connection.execute resolves: the projection, then the finally block
ExecuteResolves ==
    /\ pc = "executing"
    /\ \E res \in DriverResults(callArgs.options) :
         /\ result' = res
         /\ returnItems' = returnItems \o Project(res, includeMetadata)
    /\ driverOutcome' = "resolved"
    /\ EnterFinally(NormalCompletion)
    /\ UNCHANGED <<closeOutcome, nodeParameters, connection, query, parameterList, includeMetadata,
                   rowLimit, idx, bindParameters, uuidCount, callArgs, caught>>

\* connection.execute rejects: the catch clause, then the finally block
ExecuteRejects ==
    /\ pc = "executing"
    /\ driverOutcome' = "rejected"
    /\ caught' = Error("DriverError")
    /\ EnterFinally(CatchClause(Error("DriverError")))
    /\ UNCHANGED <<closeOutcome, nodeParameters, connection, query, parameterList, includeMetadata,
                   rowLimit, idx, bindParameters, uuidCount, callArgs, result,
                   returnItems>>

\* await connection.close() resolves: the function returns or rethrows
CloseResolves ==
    /\ pc = "closing"
    /\ closeOutcome' = "resolved"
    /\ pc' = "done"
    /\ outcome' = Settle(pending, returnItems)
    /\ UNCHANGED <<nodeParameters, connection, query, parameterList, includeMetadata,
                   rowLimit, idx, bindParameters, uuidCount, calls, callArgs,
                   driverOutcome, result, returnItems, caught, pending>>

\* await connection.close() rejects: logged, then the function returns or rethrows
CloseRejects ==
    /\ pc = "closing"
    /\ closeOutcome' = "rejected"
    /\ calls' = Append(calls, "console.error")
    /\ pending' = CloseFailed(pending, Error("CloseError"))
    /\ pc' = "done"
    /\ outcome' = Settle(pending', returnItems)
    /\ UNCHANGED <<nodeParameters, connection, query, parameterList, includeMetadata,
                   rowLimit, idx, bindParameters, uuidCount, callArgs, driverOutcome,
                   result, returnItems, caught>>

Next ==
    \/ GetConnectionResolves
    \/ GetConnectionRejects
    \/ ReadParameters
    \/ BindParameter
    \/ CallExecute
    \/ ExecuteResolves
    \/ ExecuteRejects
    \/ CloseResolves
    \/ CloseRejects

Spec == Init /\ [][Next]_vars

----------------------------------------------------------------------------
(* The bind compiler alone: the invocation up to the end of the reduce,     *)
(* over queries whose placeholders include a name and a longer one.         *)

CompileTokens == {<<":", "a">>, <<":", "a", "b">>}
CompileNames == {<<"a">>, <<"a", "b">>}
CompileKinds ==
    { <<JSStr(<<"7">>), "number", FALSE>>,
      <<JSNum(12), "string", FALSE>>,
      <<JSStr(<<"x">>), "number", FALSE>>,
      <<JSStr(<<"2", ",", "1">>), "number", TRUE>>,
      <<JSStr(<<>>), "number", TRUE>>,
      <<JSStr(<<"7">>), "string", TRUE>> }
CompileParams == {Param(n, k[1], k[2], k[3]) : n \in CompileNames, k \in CompileKinds}
CompileInputs == NodeParameters(Queries(CompileTokens), CompileParams, {FALSE}, {0})

InitCompile == InitWith(CompileInputs)

NextCompile ==
    \/ GetConnectionResolves
    \/ ReadParameters
    \/ BindParameter

SpecCompile == InitCompile /\ [][NextCompile]_vars

----------------------------------------------------------------------------
(* Vocabulary of the properties *)

\* characters of a placeholder name
IdentChars == Range(HexChars) \cup {"x", "_"}

\* end of the identifier that starts at position i of s
RECURSIVE IdentEnd(_, _)
IdentEnd(s, i) ==
    IF i <= Len(s) /\ s[i] \in IdentChars THEN IdentEnd(s, i + 1) ELSE i - 1

\* names of the placeholder tokens of s, in order: each colon with the
\* longest identifier after it
RECURSIVE TokensFrom(_, _)
TokensFrom(s, i) ==
    IF i > Len(s) THEN <<>>
    ELSE IF s[i] = ":"
         THEN <<SubSeq(s, i + 1, IdentEnd(s, i + 1))>> \o TokensFrom(s, IdentEnd(s, i + 1) + 1)
         ELSE TokensFrom(s, i + 1)

Tokens(s) == TokensFrom(s, 1)

Count(seq, x) == Cardinality({i \in 1..Len(seq) : seq[i] = x})

IsProperPrefix(n, m) == Len(n) < Len(m) /\ SubSeq(m, 1, Len(n)) = n

\* positions of the commas of s, and its j-th comma-separated segment
CommaPos(s) == {i \in 1..Len(s) : s[i] = ","}
NthComma(s, j) == CHOOSE c \in CommaPos(s) : Cardinality({d \in CommaPos(s) : d < c}) = j - 1
Segment(s, j) ==
    LET from == IF j = 1 THEN 1 ELSE NthComma(s, j - 1) + 1
        to == IF j = Cardinality(CommaPos(s)) + 1 THEN Len(s) ELSE NthComma(s, j) - 1
    IN SubSeq(s, from, to)

\* the numeric reading of the segments and values the inputs hold
ExpectedNumber(s) ==
    CASE s = <<>> -> JSNum(0)
      [] s = <<"1">> -> JSNum(1)
      [] s = <<"2">> -> JSNum(2)
      [] s = <<"7">> -> JSNum(7)
      [] s = <<"1", "2">> -> JSNum(12)
      [] OTHER -> JSNaN

\* the text of a value of the inputs
ExpectedText(v) ==
    IF v.kind = "number" /\ v.num = 12 THEN <<"1", "2">> ELSE v.str

ExpectedEntry(param, text) ==
    IF param.datatype = "number"
    THEN [type |-> "NUMBER", val |-> ExpectedNumber(text)]
    ELSE [type |-> "STRING", val |-> JSStr(text)]

\* the reduce callback is about to run on, or has just run on, parameterList[idx]
BindStep == pc = "reduce" /\ idx <= Len(parameterList) /\ idx' = idx + 1

Keys(binds) == DOMAIN binds

ReduceDone == pc = "reduce" /\ idx > Len(parameterList)

DistinctNames(ps) == \A i, j \in 1..Len(ps) : ps[i].name = ps[j].name => i = j

----------------------------------------------------------------------------
(* Properties of the bind compiler *)

\* C5: processing a non-expanding parameter leaves the query text unchanged
\* and sets exactly the bind-map entry keyed by the declared name, typed and
\* coerced per the declared type (number: numeric parse, string: the text);
\* and when every parameter is non-expanding and the names are unique, the
\* compiled query is the input query and the keys are the declared names.
C5_PlainBind ==
    /\ [][(BindStep /\ ~parameterList[idx].parseInStatement) =>
            LET param == parameterList[idx] IN
            /\ query' = query
            /\ Keys(bindParameters') = Keys(bindParameters) \cup {param.name}
            /\ bindParameters'[param.name] =
                   ExpectedEntry(param, ExpectedText(param.value))
            /\ \A k \in Keys(bindParameters) \ {param.name} :
                   bindParameters'[k] = bindParameters[k]]_vars
    /\ [](( /\ ReduceDone
            /\ \A i \in 1..Len(parameterList) : ~parameterList[i].parseInStatement
            /\ DistinctNames(parameterList)) =>
           /\ query = nodeParameters.query
           /\ Keys(bindParameters) = {parameterList[i].name : i \in 1..Len(parameterList)}
           /\ Cardinality(Keys(bindParameters)) = Len(parameterList))

\* two non-expanding parameters of different types have been compiled
C5_Witness ==
    /\ ReduceDone
    /\ Len(parameterList) = 2
    /\ \A i \in 1..2 : ~parameterList[i].parseInStatement
    /\ parameterList[1].name = <<"a">> /\ parameterList[1].datatype = "number"
    /\ parameterList[2].name = <<"a", "b">> /\ parameterList[2].datatype = "string"
    /\ bindParameters[<<"a">>].val = JSNum(7)
    /\ bindParameters[<<"a", "b">>].val = JSStr(<<"1", "2">>)
    /\ Len(Tokens(nodeParameters.query)) = 2

\* the placeholder list "(:k1,:k2,...)" of the keys ks
KeyList(ks) == <<"(">> \o Join([i \in 1..Len(ks) |-> <<":">> \o ks[i]], <<",">>) \o <<")">>

\* C4: an expanding parameter whose value has k comma-separated segments
\* adds exactly k new entries with pairwise distinct keys name+suffix, the
\* i-th holding the i-th segment coerced to the declared type; every
\* occurrence of :name in the query is replaced by one parenthesized,
\* comma-separated list of those k placeholders in split order; the name
\* itself is not a key of the bind map (the names being unique).
C4_Expand ==
    [][(BindStep /\ parameterList[idx].parseInStatement) =>
        LET param == parameterList[idx]
            text == ExpectedText(param.value)
            k == Cardinality(CommaPos(text)) + 1
            new == Keys(bindParameters') \ Keys(bindParameters)
        IN /\ Cardinality(new) = k
           /\ Keys(bindParameters) \subseteq Keys(bindParameters')
           /\ \A key \in Keys(bindParameters) : bindParameters'[key] = bindParameters[key]
           /\ \A key \in new : IsProperPrefix(param.name, key)
           /\ param.name \notin new
           /\ (\A j \in 1..(idx - 1) : parameterList[j].name # param.name) =>
                  param.name \notin Keys(bindParameters')
           /\ \E ks \in [1..k -> new] :
                /\ \A i, j \in 1..k : ks[i] = ks[j] => i = j
                /\ \A i \in 1..k :
                     bindParameters'[ks[i]] = ExpectedEntry(param, Segment(text, i))
                /\ query' = ReplaceAll(query, <<":">> \o param.name, KeyList(ks))]_vars

\* a two-segment numeric parameter has been expanded in a query that names
\* it twice, and a one-segment empty one has given the number zero
C4_Witness ==
    /\ pc = "reduce"
    /\ idx = 3
    /\ nodeParameters.query = <<":", "a", " ", ":", "a">>
    /\ parameterList[1] = Param(<<"a">>, JSStr(<<"2", ",", "1">>), "number", TRUE)
    /\ parameterList[2] = Param(<<"a", "b">>, JSStr(<<>>), "number", TRUE)
    /\ Cardinality(Keys(bindParameters)) = 3
    /\ \E key \in Keys(bindParameters) : bindParameters[key].val = JSNum(0)
    /\ Len(Tokens(query)) = 4

\* C3: rewriting for an expanding parameter named n replaces only the
\* placeholder tokens that are exactly :n; a longer placeholder whose name
\* has n as a proper prefix appears unchanged in the rewritten query.
C3_TokenBoundary ==
    [][(BindStep /\ parameterList[idx].parseInStatement) =>
        LET n == parameterList[idx].name IN
        \A m \in Range(Tokens(query)) :
            IsProperPrefix(n, m) => Count(Tokens(query'), m) = Count(Tokens(query), m)]_vars

\* C10: after compiling parameters with pairwise distinct names, each naming
\* a placeholder of the input query (and every placeholder being declared),
\* every placeholder token of the rewritten query names a key of the bind
\* map and every key is referenced by a placeholder of the rewritten query.
C10_Consistency ==
    ( /\ ReduceDone
      /\ DistinctNames(parameterList)
      /\ {parameterList[i].name : i \in 1..Len(parameterList)}
            = Range(Tokens(nodeParameters.query)) ) =>
    Range(Tokens(query)) = Keys(bindParameters)

----------------------------------------------------------------------------
(* Properties of the invocation *)

Called(name) == Count(calls, name)

\* the try block was left by a throw before connection.execute was reached
CompileThrew == pc \in {"closing", "done"} /\ connection /\ Called("execute") = 0

\* C1: once the connection is acquired, connection.close() is invoked
\* exactly once before the invocation ends, on every exit path (the driver
\* call resolved or rejected, the compilation threw, close itself rejected),
\* and never before the driver call of the invocation.
C1_CloseOnce ==
    /\ Called("close") <= 1
    /\ (pc = "done" /\ connection) => Called("close") = 1
    /\ pc \in {"connecting", "try", "reduce", "executing"} => Called("close") = 0
    /\ \A i, j \in 1..Len(calls) :
          (calls[i] = "close" /\ calls[j] = "execute") => j < i
    /\ ~connection => Called("close") = 0

\* the compilation threw, close was called once and rejected, and the
\* invocation has ended
C1_Witness ==
    /\ pc = "done"
    /\ connection
    /\ CompileThrew
    /\ closeOutcome = "rejected"
    /\ calls = <<"close", "console.error">>

\* C2: a rejection of connection.close() does not change the outcome: after
\* a successful driver call execute() resolves with the projected items,
\* after a failed driver call (or compilation) it rejects with the wrapped
\* execution error, never the close error; the close failure is only logged.
C2_CloseFailureHarmless ==
    (pc = "done" /\ closeOutcome = "rejected") =>
        /\ Called("console.error") = 1
        /\ driverOutcome = "resolved" =>
              /\ outcome.kind = "resolved"
              /\ outcome.value = <<returnItems>>
              /\ Len(returnItems) =
                    IF includeMetadata THEN 1
                    ELSE IF result.hasRows THEN Len(result.rows) ELSE 0
        /\ driverOutcome = "rejected" =>
              /\ outcome.kind = "rejected"
              /\ outcome.error = [name |-> "NodeOperationError", cause |-> "DriverError"]
        /\ CompileThrew =>
              /\ outcome.kind = "rejected"
              /\ outcome.error = [name |-> "NodeOperationError", cause |-> "TypeError"]

\* the driver call rejected, then close rejected, and the caller got the
\* execution error
C2_Witness ==
    /\ pc = "done"
    /\ driverOutcome = "rejected"
    /\ closeOutcome = "rejected"
    /\ outcome.error.cause = "DriverError"

\* C6: when the compilation or the driver call throws, execute() ends by
\* raising one wrapped operation error that carries the original error, and
\* returns no item sequence, neither a partial nor an empty one.
C6_FailureYieldsNoItems ==
    (pc = "done" /\ (driverOutcome = "rejected" \/ CompileThrew)) =>
        /\ outcome.kind = "rejected"
        /\ outcome.value = <<>>
        /\ outcome.error.name = "NodeOperationError"
        /\ outcome.error.cause = (IF CompileThrew THEN "TypeError" ELSE "DriverError")
        /\ outcome.error.cause = caught.name
        /\ returnItems = <<>>

\* the driver call rejected after an expansion and the invocation has ended
C6_Witness ==
    /\ pc = "done"
    /\ driverOutcome = "rejected"
    /\ closeOutcome = "resolved"
    /\ uuidCount = 2
    /\ outcome.kind = "rejected"

\* C8: after a successful driver call, without includeMetadata the output
\* holds one item per returned row, in row order, each payload that row (no
\* rows or absent rows: no items); with includeMetadata it holds exactly one
\* item whose payload is the whole result, whatever the row count.
C8_Projection ==
    driverOutcome = "resolved" =>
        /\ IF includeMetadata
           THEN /\ Len(returnItems) = 1
                /\ returnItems[1].json = result
           ELSE /\ Len(returnItems) = (IF result.hasRows THEN Len(result.rows) ELSE 0)
                /\ \A i \in 1..Len(returnItems) : returnItems[i].json = result.rows[i]
        /\ pc = "done" => outcome = [kind |-> "resolved", error |-> NoError,
                                      value |-> <<returnItems>>]

\* two different rows were returned without metadata and came out in order
C8_Witness ==
    /\ pc = "done"
    /\ driverOutcome = "resolved"
    /\ ~includeMetadata
    /\ result.rows = <<[ID |-> 2], [ID |-> 1]>>
    /\ outcome.value = << <<[json |-> [ID |-> 2]], [json |-> [ID |-> 1]]>> >>

\* the decimal text of the options of rowLimit
LimitText(n) ==
    CASE n = 100 -> <<"1", "0", "0">>
      [] n = 1000 -> <<"1", "0", "0", "0">>
      [] n = 10000 -> <<"1", "0", "0", "0", "0">>

\* C9: with rowLimit 0 the text handed to the driver is the compiled query
\* unchanged; with a positive rowLimit N it is the compiled query followed
\* by one space and FETCH FIRST N ROWS ONLY, appended once, after all the
\* parameter rewriting.
C9_LimitClause ==
    [][(pc = "reduce" /\ pc' = "executing") =>
        /\ idx > Len(parameterList)
        /\ callArgs'.sql =
              IF rowLimit = 0 THEN query
              ELSE query \o <<" ">> \o <<"F", "E", "T", "C", "H">> \o <<" ">>
                         \o <<"F", "I", "R", "S", "T">> \o <<" ">> \o LimitText(rowLimit)
                         \o <<" ">> \o <<"R", "O", "W", "S">> \o <<" ">>
                         \o <<"O", "N", "L", "Y">>
        /\ callArgs'.binds = bindParameters]_vars

\* a rewritten query went to the driver with the clause for 1000 rows
C9_Witness ==
    /\ pc = "executing"
    /\ rowLimit = 1000
    /\ uuidCount = 2
    /\ Len(callArgs.sql) = Len(query)
    /\ Len(query) > Len(nodeParameters.query) + 20
    /\ SubSeq(callArgs.sql, Len(query) - 13, Len(query) - 10) = LimitText(1000)

\* the numeric reading of the value of p is not a number
NonNumeric(p) ==
    /\ p.datatype = "number"
    /\ p.value.kind # "undefined"
    /\ \E j \in 1..(Cardinality(CommaPos(ExpectedText(p.value))) + 1) :
          ExpectedNumber(Segment(ExpectedText(p.value), j)) = JSNaN

\* p is malformed for the query q: no name, a non-numeric NUMBER value, or a
\* name that is no placeholder of q
Malformed(p, q) ==
    \/ p.name = <<>>
    \/ NonNumeric(p)
    \/ p.name \notin Range(Tokens(q))

\* C7 as claimed: a malformed parameter makes the invocation fail during the
\* compilation, so connection.execute is never invoked with it.
C7_MalformedDetected ==
    Called("execute") > 0 =>
        \A i \in 1..Len(parameterList) : ~Malformed(parameterList[i], nodeParameters.query)

\* C7 as the code has it: a malformed parameter is not detected by the
\* compilation.  It is entered in the bind map like any other (a non-numeric
\* NUMBER value as NaN) and connection.execute is invoked with that map; the
\* compilation throws only on an expanding parameter whose value is undefined.
C7_MalformedReachesDriver ==
    /\ CompileThrew =>
          /\ caught = Error("TypeError")
          /\ \E i \in 1..Len(parameterList) :
                /\ parameterList[i].parseInStatement
                /\ parameterList[i].value.kind = "undefined"
    /\ (pc \in {"executing", "closing", "done"} /\ ~CompileThrew /\ connection) =>
          /\ Called("execute") = 1
          /\ callArgs.binds = bindParameters
          /\ \A i \in 1..Len(parameterList) :
                LET p == parameterList[i] IN
                /\ ~p.parseInStatement => p.name \in Keys(callArgs.binds)
                /\ p.parseInStatement =>
                      \E key \in Keys(callArgs.binds) : IsProperPrefix(p.name, key)
                /\ ( /\ ~p.parseInStatement
                     /\ NonNumeric(p)
                     /\ \A j \in 1..Len(parameterList) :
                           parameterList[j].name = p.name => j = i ) =>
                      callArgs.binds[p.name] = [type |-> "NUMBER", val |-> JSNaN]

\* connection.execute was invoked with a nameless parameter and with an
\* unmatched, non-numeric NUMBER parameter in the bind map
C7_Witness ==
    /\ pc = "executing"
    /\ Len(parameterList) = 2
    /\ parameterList[1].name = <<>>
    /\ parameterList[2].name = <<"c">>
    /\ Malformed(parameterList[2], nodeParameters.query)
    /\ Keys(callArgs.binds) = {<<>>, <<"c">>}
    /\ callArgs.binds[<<"c">>].val = JSNaN

====
